---- MODULE Spec2Model ----
(***************************************************************************)
(* hvpp: the hypervisor orchestrator (hvpp::hypervisor::start / stop /     *)
(* is_started) and the life cycle of the per-processor vcpu_t              *)
(* (launch / setup / load_vmxon / load_vmcs / error / terminate /          *)
(* ~vcpu_t), the selection of extended-page-table instances (ept_enable /  *)
(* ept_disable / ept_index) and the pending-interrupt queue of a vCPU.     *)
(*                                                                         *)
(* Conventions of the model                                                *)
(*  - hvpp_assert is compiled out in a release build: a failed assertion   *)
(*    is recorded in `asserts` and the code goes on with the statement     *)
(*    that follows it.                                                     *)
(*  - A processor is "in VMX operation" from a successful VMXON to VMXOFF  *)
(*    (vmx_op).  A VMX instruction executed outside VMX operation cannot   *)
(*    succeed; the model records it in `ud` and follows the control flow   *)
(*    the source writes after it.  ia32_asm_int3() is a breakpoint after   *)
(*    which execution continues.                                           *)
(*  - hist[p] is the sequence of the values the field state_ of vCPU p has *)
(*    taken since its construction (history variable).                     *)
(*  - The processors of the system are the domain of state_ (Procs).       *)
(*  - run[p].log is the sequence of the steps the code has executed on     *)
(*    vCPU p in the current call from outside the vCPU (broadcast closure, *)
(*    destructor, VM-exit entry point); run[p].by is the set of processors *)
(*    that have executed member code of vCPU p since its construction      *)
(*    (history variables).                                                 *)
(*  - A new-expression does not return null: `new ept_t[count]` either     *)
(*    yields the array or does not return.                                 *)
(***************************************************************************)
EXTENDS Integers, Sequences, FiniteSets, TLC

\* number of logical processors, mp::cpu_count()
NCpu == 2

\* the number of logical processors of the cold-boot scenario
NBootCpu == 4

\* the number of descriptors a handler injects into one queue, and how many
\* of them with first = true
MaxInject == 17
MaxFront == 1

\* the largest argument of ept_enable, and the number of its calls on a vCPU
MaxEptCount == 2
MaxEptAlloc == 2

\* at a VM exit: the largest rip a handler leaves in the exit context, the
\* largest length of the instruction that caused the exit, and the largest
\* rsp a handler leaves in the exit context
MaxRip == 1
MaxLen == 1
MaxReg == 1

Cpus == 0 .. (NCpu - 1)

\* enum class vcpu_state, in declaration order
vcpu_state == << "off", "initializing", "launching", "running", "terminating", "terminated" >>

\* global.vcpu_list: null pointer or the array of NCpu vcpu_t
NULL == "nullptr"
ARRAY == "vcpu_t[]"

\* vcpu_t::ept_: the array made by new ept_t[count]
EPT_ARRAY == "ept_t[]"

\* the VMCS EPT-pointer field of a zeroed VMCS
NoEptPtr == << "eptp", 0, 0 >>

\* a value of the field that is the pointer of no instance
GarbageEptPtr == << "garbage", 0, 0 >>

\* vcpu_t::pending_interrupt_queue_size
pending_interrupt_queue_size == 16

\* interrupt_t of a zeroed field: no valid descriptor
NoInterrupt == << "none", 0 >>

\* the event of the IDT-vectoring information field at a VM exit
IdtVectoring == << "idt_vectoring", 0 >>

\* the groups of capability bits check_cpu_features() reads
AllCaps == { "cpuid_vmx", "vmx_basic", "vmx_ept_vpid_cap" }

\* kinds of vmexit_handler a client passes to start(): one whose
\* invoke_termination() does nothing, one that issues the hypercall that
\* its handle() routes to vcpu_t::terminate(), one that gets terminate()
\* called on the vCPU wherever the callback is invoked
Handlers == { "noop", "vmcall", "direct" }

VARIABLES
  hw_caps,          \* capability bits the (symmetric) processors report
  cr4_vmx_enable,   \* CR4.VMXE of each processor
  vmx_op,           \* processor is in VMX operation
  ud,               \* processor executed a VMX instruction outside VMX operation
  started,          \* global.started
  vcpu_list,        \* global.vcpu_list
  handler,          \* vcpu_t::handler_ of the vCPUs of the array
  state_,           \* vcpu_t::state_ of each element of the array
  hist,             \* values state_ has taken since construction
  launch_calls,     \* number of calls of launch() on the vCPU by the orchestrator
  launch_ret,       \* path through which launch() returned to its caller
  ept,              \* per vCPU: ept_, ept_count_, ept_index_, the VMCS EPT pointer
                    \* and the enable_ept control, with the allocation counters
  run,              \* per vCPU: exit_context_, stack_.machine_frame,
                    \* fxsave_area_, suppress_rip_adjust_, the VMCS guest
                    \* rip/rsp/rflags and exit instruction length, and the
                    \* history of the current call
  proc,             \* per processor: the extended (x87/SSE) register state
                    \* and the depth of the allocation-suppression scope
  irq,              \* per vCPU: pending_interrupt_, pending_interrupt_first_,
                    \* pending_interrupt_count_, the VMCS fields of event
                    \* injection, and the history of the queue
  asserts,          \* hvpp_assert sites that have failed
  ctl,              \* position of the control thread
  ipi_pending,      \* processors that have not yet run the broadcast closure
  lastOp,           \* last operation called by the control thread
  ret               \* its result

vars == << hw_caps, cr4_vmx_enable, vmx_op, ud, started, vcpu_list, handler,
           state_, hist, launch_calls, launch_ret, ept, run, proc, irq, asserts,
           ctl, ipi_pending, lastOp, ret >>

hwvars == << hw_caps, cr4_vmx_enable, vmx_op, ud, proc >>
vcpuvars == << handler, state_, hist, launch_calls, launch_ret, ept, run, irq >>

\* the logical processors of the system
Procs == DOMAIN state_

-----------------------------------------------------------------------------
(* One vCPU object together with the processor that executes its code:     *)
(* x = [state_, hist, e, r, cpu, p, vmx_op, cr4_vmx_enable, ud, asserts]    *)
(* where e and r are the vCPU's elements of ept and run, cpu is the        *)
(* executing processor and p its element of proc                           *)

\* a step of the code, or consecutive steps, appended to the history of the
\* current call
ev(x, name) == [x EXCEPT !.r.log = Append(@, name)]
steps(x, names) == [x EXCEPT !.r.log = @ \o names]

\* entry into code of the vCPU from outside of it
enter(x, name) == [x EXCEPT !.r.log = << name >>, !.r.by = @ \cup { x.cpu }]

hvpp_assert(x, cond, site) ==
  IF cond THEN x ELSE [x EXCEPT !.asserts = @ \cup {site}]

\* b, once a has been evaluated: the statements of a function body take
\* effect in their order
after(a, b) == IF DOMAIN a = DOMAIN a THEN b ELSE b

\* assignment to state_
set_state(x, s) ==
  [ev(x, s) EXCEPT !.state_ = s,
                   !.hist = IF s = x.state_ THEN @ ELSE Append(@, s)]

\* a VMX instruction without checked result (vmread, vmwrite, invvpid,
\* invept, vmxoff)
vmx_insn(x) ==
  IF x.vmx_op THEN x ELSE [x EXCEPT !.ud = TRUE]

\* vcpu_t::terminate()
terminate(x) ==
  LET a == hvpp_assert(x, x.state_ # "off" /\ x.state_ # "terminated", "terminate")
      b == vmx_insn(a)
      c == [b EXCEPT !.r.exit_context_.rip = @ + b.r.exit_instruction_length,
                     !.r.terminates = @ + 1,
                     !.r.vmxoff_outside = @ \/ ~b.vmx_op,
                     !.vmx_op = FALSE,
                     !.cr4_vmx_enable = FALSE,
                     !.r.log = @ \o << "terminate", "rip_advance", "write_gdtr",
                                       "write_idtr", "write_cr3", "invvpid",
                                       "invept", "vmxoff", "cr4_clear" >>]
  IN  set_state(c, "terminated")

\* vcpu_t::error()
error(x) ==
  after(x, terminate(steps(vmx_insn(x), << "error", "exit_instruction_error", "int3" >>)))

\* vcpu_t::load_vmxon(); vmxon_ok: VMXON reports success
load_vmxon(x, vmxon_ok) ==
  LET a == [x EXCEPT !.cr4_vmx_enable = TRUE]
  IN  IF vmxon_ok
        THEN steps(set_state([steps(a, << "load_vmxon", "vmxon" >>)
                                EXCEPT !.vmx_op = TRUE], "initializing"),
                   << "invvpid", "invept" >>)
        ELSE error(set_state(steps(a, << "load_vmxon", "vmxon", "failed" >>),
                             "terminated"))

\* vcpu_t::load_vmcs(); vmcs_ok: VMCLEAR and VMPTRLD report success
load_vmcs(x, vmcs_ok) ==
  LET a == hvpp_assert(x, x.state_ = "initializing", "load_vmcs")
      b == vmx_insn(a)
  IN  IF vmcs_ok /\ a.vmx_op
        THEN steps(b, << "load_vmcs", "vmclear_vmptrld" >>)
        ELSE error(steps(b, << "load_vmcs", "vmclear_vmptrld", "failed" >>))

\* vcpu_t::setup_host(), vcpu_t::setup_guest(): writes of VMCS fields
setup_host(x) == steps(vmx_insn(x), << "setup_host" >>)
setup_guest(x) == steps(vmx_insn(x), << "setup_guest" >>)

\* setup() that calls the handler's setup() after the entry instruction
setup_handler_late(x, vmxon_ok, vmcs_ok, vmlaunch_ok) ==
  LET a == load_vmxon(x, vmxon_ok)
      b == load_vmcs(a, vmcs_ok)
      c == setup_guest(setup_host(b))
      d == vmx_insn(c)
  IN  after(a, after(b, after(c,
        IF vmlaunch_ok /\ c.vmx_op
          THEN [x |-> steps(d, << "vmlaunch", "handler_setup" >>), entered |-> TRUE]
          ELSE [x |-> error(steps(d, << "vmlaunch", "handler_setup", "failed" >>)),
                entered |-> FALSE])))

\* vcpu_t::setup(); entered: VMLAUNCH succeeded and control is in the guest
setup(x, vmxon_ok, vmcs_ok, vmlaunch_ok) ==
  LET a == load_vmxon(x, vmxon_ok)
      b == load_vmcs(a, vmcs_ok)
      c == setup_guest(setup_host(b))
      d == vmx_insn(c)
  IN  after(a, after(b, after(c,
        IF vmlaunch_ok /\ c.vmx_op
          THEN [x |-> steps(d, << "handler_setup", "vmlaunch" >>), entered |-> TRUE]
          ELSE [x |-> error(steps(d, << "handler_setup", "vmlaunch", "failed" >>)),
                entered |-> FALSE])))

\* launch() whose second return leaves state_ as setup() left it
launch_not_running(x, vmxon_ok, vmcs_ok, vmlaunch_ok) ==
  LET s == setup(ev(x, "launch"), vmxon_ok, vmcs_ok, vmlaunch_ok)
  IN  after(s,
        [x |-> IF s.entered THEN ev(s.x, "entry_guest") ELSE s.x,
         path |-> IF s.entered THEN "second" ELSE "first"])

\* vcpu_t::launch(): capture() returns off to the original caller, and
\* launching when entry_guest() restores the captured context
launch(x, vmxon_ok, vmcs_ok, vmlaunch_ok) ==
  LET s == setup(ev(x, "launch"), vmxon_ok, vmcs_ok, vmlaunch_ok)
  IN  after(s,
        IF s.entered
          THEN [x |-> set_state(ev(s.x, "entry_guest"), "running"), path |-> "second"]
          ELSE [x |-> s.x, path |-> "first"])

\* mm::allocator_guard: constructor and destructor
guard_acquire(x) == ev([x EXCEPT !.p.guard = @ + 1], "guard_acquire")
guard_release(x) == ev([x EXCEPT !.p.guard = @ - 1], "guard_release")

\* the closure start() broadcasts (hypervisor.cpp lines 124-129)
start_closure(x, vmxon_ok, vmcs_ok, vmlaunch_ok) ==
  LET l == launch(guard_acquire(enter(x, "start_closure")),
                  vmxon_ok, vmcs_ok, vmlaunch_ok)
  IN  after(l, [x |-> guard_release(l.x), path |-> l.path])

\* the closure stop() broadcasts (hypervisor.cpp lines 154-159)
stop_closure(x) ==
  guard_release(terminate(guard_acquire(enter(x, "stop_closure"))))

\* bytes of the stack of a constructed vCPU
StackFill == 204

\* the extended register state: of the guest, and as host code leaves it
FxGuest == { "fx_guest_a", "fx_guest_b" }
FxHost == "fx_host"

\* vcpu_t::vcpu_t(): contexts, stack, the zeroed VMCS region; fxsave_area_
\* has no initializer.  fx_at_entry, suppress_at_entry and handled are
\* history: the extended register state and suppress_rip_adjust_ at the
\* last entry of entry_host(), and what the handler did in it; terminates
\* and vmxoff_outside are history: how often terminate() has run on the
\* vCPU, and whether it has run on a processor outside VMX operation
run_ctor ==
  [ log |-> << >>, by |-> { },
    exit_context_ |-> [ rip |-> 0, rsp |-> 0, rflags |-> 0 ],
    machine_frame |-> [ rip |-> StackFill, rsp |-> StackFill ],
    guest |-> [ rip |-> 0, rsp |-> 0, rflags |-> 0 ],
    exit_instruction_length |-> 0,
    suppress_rip_adjust_ |-> FALSE,
    fxsave_area_ |-> "fx_indeterminate",
    fx_at_entry |-> "fx_indeterminate",
    suppress_at_entry |-> FALSE,
    terminates |-> 0,
    vmxoff_outside |-> FALSE,
    handled |-> [ rip |-> 0, reg |-> 0, suppress |-> FALSE, terminate |-> FALSE ] ]

\* a processor outside the hypervisor
proc_init == [ fx |-> FxHost, guard |-> 0 ]

\* vcpu_t::vcpu_t(): the EPT members, and the zeroed VMCS region
ept_ctor ==
  [ ept_ |-> NULL, ept_count_ |-> 0, ept_index_ |-> 0,
    ept_pointer |-> NoEptPtr, enable_ept |-> FALSE,
    allocs |-> 0, frees |-> 0 ]

\* ept_t::ept_pointer() of instance i of the allocation number g
EptPtr(g, i) == << "eptp", g, i >>

\* ept_[index] exists: the array is allocated and holds that element
ept_exists(e, index) == e.ept_ # NULL /\ index < e.ept_count_

\* ept_index(index) whose assertion admits index = ept_count_
ept_index_off_by_one(x, index, junk) ==
  LET a == hvpp_assert(x, index <= x.e.ept_count_, "ept_index")
      ptr == IF ept_exists(a.e, index) THEN EptPtr(a.e.allocs, index) ELSE junk
      b == vmx_insn(a)
  IN  [b EXCEPT !.e.ept_pointer = ptr, !.e.ept_index_ = index]

\* ept_index(index) that leaves the VMCS EPT pointer alone
ept_index_no_load(x, index, junk) ==
  LET a == hvpp_assert(x, index < x.e.ept_count_, "ept_index")
  IN  [a EXCEPT !.e.ept_index_ = index]

\* vcpu_t::ept_index(index); junk: what the read of an element that does
\* not exist yields
ept_index(x, index, junk) ==
  LET a == hvpp_assert(x, index < x.e.ept_count_, "ept_index")
      ptr == IF ept_exists(a.e, index) THEN EptPtr(a.e.allocs, index) ELSE junk
      b == vmx_insn(a)
  IN  [b EXCEPT !.e.ept_pointer = ptr, !.e.ept_index_ = index]

\* vcpu_t::ept(index): the reference it returns is to an instance, or to
\* no instance
ept_ref(x, index) ==
  [ x |-> hvpp_assert(x, index < x.e.ept_count_, "ept"),
    result |-> IF ept_exists(x.e, index) THEN "instance" ELSE "no_instance" ]

\* ept_enable(count) that selects no instance
ept_enable_no_select(x, count, junk) ==
  LET a == hvpp_assert(x, x.e.ept_ = NULL /\ count > 0, "ept_enable")
      b == [a EXCEPT !.e.ept_ = EPT_ARRAY, !.e.ept_count_ = count,
                     !.e.allocs = @ + 1]
  IN  [vmx_insn(b) EXCEPT !.e.enable_ept = TRUE]

\* vcpu_t::ept_enable(count)
ept_enable(x, count, junk) ==
  LET a == hvpp_assert(x, x.e.ept_ = NULL /\ count > 0, "ept_enable")
      b == [a EXCEPT !.e.ept_ = EPT_ARRAY, !.e.ept_count_ = count,
                     !.e.allocs = @ + 1]
      c == [vmx_insn(b) EXCEPT !.e.enable_ept = TRUE]
  IN  ept_index(c, 0, junk)

\* ept_disable() that keeps the pointer to the array it deleted
ept_disable_dangling(x) ==
  IF x.e.ept_ = NULL THEN x
  ELSE [x EXCEPT !.e.frees = @ + 1]

\* vcpu_t::ept_disable()
ept_disable(x) ==
  IF x.e.ept_ = NULL THEN x
  ELSE [x EXCEPT !.e.ept_ = NULL, !.e.frees = @ + 1]

-----------------------------------------------------------------------------
(* The pending-interrupt queue of a vCPU (vcpu.inl).                       *)
(* q = an element of irq.  A descriptor keeps its identity through the     *)
(* queue: the sanitizing of its fields is not modelled.                    *)

\* interrupt_t: the n-th descriptor handed to interrupt_inject with
\* first = false, and the n-th one handed to it with first = true
Interrupt(n) == << "injected", n >>
InterruptFirst(n) == << "injected_first", n >>

\* vcpu_t::vcpu_t(): the queue members, and the zeroed VMCS region;
\* injected, fronts, enq, deliv and blocked are the history of the queue
irq_ctor ==
  [ pending_interrupt_ |-> [i \in 0 .. (pending_interrupt_queue_size - 1) |-> NoInterrupt],
    pending_interrupt_first_ |-> 0,
    pending_interrupt_count_ |-> 0,
    entry_interruption_info |-> NoInterrupt,
    interrupt_window_exiting |-> FALSE,
    injected |-> 0, fronts |-> 0, enq |-> << >>, deliv |-> << >>,
    blocked |-> FALSE ]

\* vcpu_t::interrupt_is_pending()
interrupt_is_pending(q) == q.pending_interrupt_count_ > 0

\* the queue is at its capacity
interrupt_queue_full(q) == q.pending_interrupt_count_ >= pending_interrupt_queue_size

\* the pending descriptors in the order of their delivery
Contents(q) ==
  [ i \in 1 .. q.pending_interrupt_count_ |->
      q.pending_interrupt_[(q.pending_interrupt_first_ + i - 1) % pending_interrupt_queue_size] ]

\* the slot before slot i of the ring, and the slot n slots after it
ring_prev(i) == IF i = 0 THEN pending_interrupt_queue_size - 1 ELSE i - 1
ring_add(i, n) == (i + n) % pending_interrupt_queue_size

\* the descriptor stored at the head of the queue
put_first(q, interrupt) ==
  LET f == ring_prev(q.pending_interrupt_first_)
  IN  [q EXCEPT !.pending_interrupt_[f] = interrupt,
                !.pending_interrupt_first_ = f,
                !.pending_interrupt_count_ = @ + 1]

\* the descriptor stored at the tail of the queue
put_last(q, interrupt) ==
  LET t == ring_add(q.pending_interrupt_first_, q.pending_interrupt_count_)
  IN  [q EXCEPT !.pending_interrupt_[t] = interrupt,
                !.pending_interrupt_count_ = @ + 1]

\* interrupt_inject that stores into a full queue
interrupt_inject_overwrite(q, interrupt, first) ==
  LET r == IF first THEN put_first(q, interrupt) ELSE put_last(q, interrupt)
  IN  IF interrupt_queue_full(q)
        THEN [q |-> [r EXCEPT !.pending_interrupt_count_ = q.pending_interrupt_count_],
              result |-> FALSE]
        ELSE [q |-> r, result |-> TRUE]

\* interrupt_inject that ignores its second argument
interrupt_inject_always_last(q, interrupt, first) ==
  IF interrupt_queue_full(q) THEN [q |-> q, result |-> FALSE]
  ELSE [q |-> put_last(q, interrupt), result |-> TRUE]

\* interrupt_inject whose head index does not wrap around
interrupt_inject_no_wrap(q, interrupt, first) ==
  IF interrupt_queue_full(q) THEN [q |-> q, result |-> FALSE]
  ELSE IF first
    THEN [q |-> [q EXCEPT !.pending_interrupt_first_ = (@ - 1) % 256,
                          !.pending_interrupt_count_ = @ + 1],
          result |-> TRUE]
    ELSE [q |-> put_last(q, interrupt), result |-> TRUE]

\* vcpu_t::interrupt_inject(interrupt, first)
interrupt_inject(q, interrupt, first) ==
  IF interrupt_queue_full(q) THEN [q |-> q, result |-> FALSE]
  ELSE [q |-> IF first THEN put_first(q, interrupt) ELSE put_last(q, interrupt),
        result |-> TRUE]

\* vcpu_t::interrupt_inject_force(interrupt)
interrupt_inject_force(q, interrupt) ==
  [q EXCEPT !.entry_interruption_info = interrupt]

\* interrupt_inject_pending that leaves the delivered descriptor queued
interrupt_inject_pending_no_advance(q, can_accept) ==
  IF can_accept /\ interrupt_is_pending(q)
    THEN LET head == q.pending_interrupt_[q.pending_interrupt_first_]
         IN  [q EXCEPT !.entry_interruption_info = head,
                       !.deliv = Append(@, head)]
    ELSE [q EXCEPT !.interrupt_window_exiting = TRUE]

\* interrupt_inject_pending that never asks for the interrupt-window exit
interrupt_inject_pending_no_window(q, can_accept) ==
  IF can_accept /\ interrupt_is_pending(q)
    THEN LET head == q.pending_interrupt_[q.pending_interrupt_first_]
         IN  [q EXCEPT !.entry_interruption_info = head,
                       !.pending_interrupt_first_ = ring_add(@, 1),
                       !.pending_interrupt_count_ = @ - 1,
                       !.deliv = Append(@, head)]
    ELSE q

\* vcpu_t::interrupt_inject_pending(); can_accept: the guest can take an
\* interrupt at the next VM entry
interrupt_inject_pending(q, can_accept) ==
  IF can_accept /\ interrupt_is_pending(q)
    THEN LET head == q.pending_interrupt_[q.pending_interrupt_first_]
         IN  [q EXCEPT !.entry_interruption_info = head,
                       !.pending_interrupt_first_ = ring_add(@, 1),
                       !.pending_interrupt_count_ = @ - 1,
                       !.deliv = Append(@, head)]
    ELSE [q EXCEPT !.interrupt_window_exiting = TRUE]

\* rsp and rflags of a processor in the VM-exit stub, and the address of
\* vmx::vmresume
HostRsp == MaxReg + 1
HostRflags == MaxReg + 2
vmresume == 1000

\* a register context whose rsp is reg
Context(rip, reg) == [ rip |-> rip, rsp |-> reg, rflags |-> MaxReg - reg ]

\* what a handler does in handle(): the rip, rsp and rflags it leaves in the
\* exit context, whether it calls suppress_rip_adjust(), whether it calls
\* terminate()
Handled ==
  [ rip : 0 .. MaxRip, reg : 0 .. MaxReg, suppress : BOOLEAN, terminate : BOOLEAN ]

\* vcpu_t::suppress_rip_adjust()
suppress_rip_adjust(x) == [x EXCEPT !.r.suppress_rip_adjust_ = TRUE]

\* vmexit_handler::handle(): host code, which uses the extended registers
handle(x, h) ==
  LET a == [ev(x, "handle") EXCEPT !.p.fx = FxHost,
                                  !.r.exit_context_ = Context(h.rip, h.reg),
                                  !.r.handled = h]
      b == IF h.suppress THEN suppress_rip_adjust(a) ELSE a
  IN  after(b, IF h.terminate THEN terminate(b) ELSE b)

\* ia32_asm_fx_save(&fxsave_area_), ia32_asm_fx_restore(&fxsave_area_)
fx_save(x) == [ev(x, "fx_save") EXCEPT !.r.fxsave_area_ = x.p.fx]
fx_restore(x) == [ev(x, "fx_restore") EXCEPT !.p.fx = x.r.fxsave_area_]

\* entry_host() without the test of state_ after handle()
entry_host_no_goto(x, h) ==
  LET a == [enter(x, "entry_host") EXCEPT
              !.r.suppress_rip_adjust_ = FALSE,
              !.r.suppress_at_entry = x.r.suppress_rip_adjust_]
      b == guard_acquire(fx_save(a))
      captured_rsp == b.r.exit_context_.rsp
      captured_rflags == b.r.exit_context_.rflags
      c == [steps(vmx_insn(b), << "read_guest", "machine_frame" >>) EXCEPT
              !.r.exit_context_ = b.r.guest,
              !.r.machine_frame =
                 [ rip |-> b.r.guest.rip + b.r.exit_instruction_length,
                   rsp |-> b.r.guest.rsp ]]
      d == handle(c, h)
      f == IF d.r.suppress_rip_adjust_ THEN d
           ELSE [ev(d, "adjust_rip") EXCEPT
                   !.r.exit_context_.rip = @ + d.r.exit_instruction_length]
      g == [ev(vmx_insn(f), "write_guest") EXCEPT !.r.guest = f.r.exit_context_]
      i == [ev(g, "resume") EXCEPT
              !.r.exit_context_ = [ rip |-> vmresume, rsp |-> captured_rsp,
                                    rflags |-> captured_rflags ]]
  IN  after(b, after(c, after(d,
        fx_restore(guard_release(i)))))

\* entry_host() that leaves suppress_rip_adjust_ as the last exit set it
entry_host_sticky(x, h) ==
  LET a == [enter(x, "entry_host") EXCEPT
              !.r.suppress_at_entry = x.r.suppress_rip_adjust_]
      b == guard_acquire(fx_save(a))
      captured_rsp == b.r.exit_context_.rsp
      captured_rflags == b.r.exit_context_.rflags
      c == [steps(vmx_insn(b), << "read_guest", "machine_frame" >>) EXCEPT
              !.r.exit_context_ = b.r.guest,
              !.r.machine_frame =
                 [ rip |-> b.r.guest.rip + b.r.exit_instruction_length,
                   rsp |-> b.r.guest.rsp ]]
      d == handle(c, h)
      f == IF d.r.suppress_rip_adjust_ THEN d
           ELSE [ev(d, "adjust_rip") EXCEPT
                   !.r.exit_context_.rip = @ + d.r.exit_instruction_length]
      g == [ev(vmx_insn(f), "write_guest") EXCEPT !.r.guest = f.r.exit_context_]
      i == [ev(g, "resume") EXCEPT
              !.r.exit_context_ = [ rip |-> vmresume, rsp |-> captured_rsp,
                                    rflags |-> captured_rflags ]]
  IN  after(b, after(c, after(d,
        IF d.state_ = "terminated"
          THEN fx_restore(guard_release(d))
          ELSE fx_restore(guard_release(i)))))

\* entry_host() whose terminated path skips the restore of the extended
\* registers
entry_host_no_restore(x, h) ==
  LET a == [enter(x, "entry_host") EXCEPT
              !.r.suppress_rip_adjust_ = FALSE,
              !.r.suppress_at_entry = x.r.suppress_rip_adjust_]
      b == guard_acquire(fx_save(a))
      captured_rsp == b.r.exit_context_.rsp
      captured_rflags == b.r.exit_context_.rflags
      c == [steps(vmx_insn(b), << "read_guest", "machine_frame" >>) EXCEPT
              !.r.exit_context_ = b.r.guest,
              !.r.machine_frame =
                 [ rip |-> b.r.guest.rip + b.r.exit_instruction_length,
                   rsp |-> b.r.guest.rsp ]]
      d == handle(c, h)
      f == IF d.r.suppress_rip_adjust_ THEN d
           ELSE [ev(d, "adjust_rip") EXCEPT
                   !.r.exit_context_.rip = @ + d.r.exit_instruction_length]
      g == [ev(vmx_insn(f), "write_guest") EXCEPT !.r.guest = f.r.exit_context_]
      i == [ev(g, "resume") EXCEPT
              !.r.exit_context_ = [ rip |-> vmresume, rsp |-> captured_rsp,
                                    rflags |-> captured_rflags ]]
  IN  after(b, after(c, after(d,
        IF d.state_ = "terminated"
          THEN guard_release(d)
          ELSE fx_restore(guard_release(i)))))

\* entry_host() whose terminated path skips the destructor of the guard
entry_host_no_release(x, h) ==
  LET a == [enter(x, "entry_host") EXCEPT
              !.r.suppress_rip_adjust_ = FALSE,
              !.r.suppress_at_entry = x.r.suppress_rip_adjust_]
      b == guard_acquire(fx_save(a))
      captured_rsp == b.r.exit_context_.rsp
      captured_rflags == b.r.exit_context_.rflags
      c == [steps(vmx_insn(b), << "read_guest", "machine_frame" >>) EXCEPT
              !.r.exit_context_ = b.r.guest,
              !.r.machine_frame =
                 [ rip |-> b.r.guest.rip + b.r.exit_instruction_length,
                   rsp |-> b.r.guest.rsp ]]
      d == handle(c, h)
      f == IF d.r.suppress_rip_adjust_ THEN d
           ELSE [ev(d, "adjust_rip") EXCEPT
                   !.r.exit_context_.rip = @ + d.r.exit_instruction_length]
      g == [ev(vmx_insn(f), "write_guest") EXCEPT !.r.guest = f.r.exit_context_]
      i == [ev(g, "resume") EXCEPT
              !.r.exit_context_ = [ rip |-> vmresume, rsp |-> captured_rsp,
                                    rflags |-> captured_rflags ]]
  IN  after(b, after(c, after(d,
        IF d.state_ = "terminated"
          THEN fx_restore(d)
          ELSE fx_restore(guard_release(i)))))

\* vcpu_t::entry_host()
entry_host(x, h) ==
  LET a == [enter(x, "entry_host") EXCEPT
              !.r.suppress_rip_adjust_ = FALSE,
              !.r.suppress_at_entry = x.r.suppress_rip_adjust_]
      b == guard_acquire(fx_save(a))
      captured_rsp == b.r.exit_context_.rsp
      captured_rflags == b.r.exit_context_.rflags
      c == [steps(vmx_insn(b), << "read_guest", "machine_frame" >>) EXCEPT
              !.r.exit_context_ = b.r.guest,
              !.r.machine_frame =
                 [ rip |-> b.r.guest.rip + b.r.exit_instruction_length,
                   rsp |-> b.r.guest.rsp ]]
      d == handle(c, h)
      f == IF d.r.suppress_rip_adjust_ THEN d
           ELSE [ev(d, "adjust_rip") EXCEPT
                   !.r.exit_context_.rip = @ + d.r.exit_instruction_length]
      g == [ev(vmx_insn(f), "write_guest") EXCEPT !.r.guest = f.r.exit_context_]
      i == [ev(g, "resume") EXCEPT
              !.r.exit_context_ = [ rip |-> vmresume, rsp |-> captured_rsp,
                                    rflags |-> captured_rflags ]]
  IN  after(b, after(c, after(d,
        IF d.state_ = "terminated"
          THEN fx_restore(guard_release(d))
          ELSE fx_restore(guard_release(i)))))

\* vmexit_handler::invoke_termination(): the hypercall traps only in VMX
\* operation, and the handler routes the exit to terminate()
invoke_termination(x, h) ==
  IF h = "noop" THEN x
  ELSE IF h = "direct" \/ x.vmx_op THEN terminate(x)
  ELSE [x EXCEPT !.ud = TRUE]

\* ~vcpu_t() that releases the EPT instances before it calls the handler
destroy_release_first(x, h) ==
  LET a == ept_disable(ev(set_state(enter(x, "~vcpu_t"), "terminating"), "ept_disable"))
      b == invoke_termination(ev(a, "invoke_termination"), h)
  IN  after(a, b)

\* vcpu_t::~vcpu_t()
destroy(x, h) ==
  LET a == set_state(enter(x, "~vcpu_t"), "terminating")
      b == invoke_termination(ev(a, "invoke_termination"), h)
  IN  after(a, after(b, ept_disable(ev(b, "ept_disable"))))

-----------------------------------------------------------------------------
(* The machine: every vCPU and every processor.                            *)
(* w = [state_, hist, ept, run, proc, irq, vmx_op, cr4_vmx_enable, ud,     *)
(*      asserts]                                                           *)

World ==
  [ state_ |-> state_, hist |-> hist, ept |-> ept, run |-> run, proc |-> proc,
    irq |-> irq, vmx_op |-> vmx_op,
    cr4_vmx_enable |-> cr4_vmx_enable, ud |-> ud, asserts |-> asserts ]

\* vCPU v of w as seen from processor c
view(w, v, c) ==
  [ state_ |-> w.state_[v], hist |-> w.hist[v], e |-> w.ept[v],
    r |-> w.run[v], cpu |-> c, p |-> w.proc[c],
    vmx_op |-> w.vmx_op[c], cr4_vmx_enable |-> w.cr4_vmx_enable[c],
    ud |-> w.ud[c], asserts |-> w.asserts ]

\* w after code on processor c left vCPU v and the processor as x
store(w, v, c, x) ==
  [ state_ |-> [w.state_ EXCEPT ![v] = x.state_],
    hist |-> [w.hist EXCEPT ![v] = x.hist],
    ept |-> [w.ept EXCEPT ![v] = x.e],
    run |-> [w.run EXCEPT ![v] = x.r],
    proc |-> [w.proc EXCEPT ![c] = x.p],
    irq |-> w.irq,
    vmx_op |-> [w.vmx_op EXCEPT ![c] = x.vmx_op],
    cr4_vmx_enable |-> [w.cr4_vmx_enable EXCEPT ![c] = x.cr4_vmx_enable],
    ud |-> [w.ud EXCEPT ![c] = x.ud],
    asserts |-> x.asserts ]

\* delete[] global.vcpu_list on processor c: the destructors run from the
\* last element (index i) down to the first
RECURSIVE delete_array(_, _, _, _)
delete_array(w, i, c, h) ==
  IF i < 0 THEN w
  ELSE LET d == store(w, i, c, destroy(view(w, i, c), h))
       IN  after(d, delete_array(d, i - 1, c, h))

Commit(w) ==
  /\ state_' = w.state_
  /\ hist' = w.hist
  /\ ept' = w.ept
  /\ run' = w.run
  /\ proc' = w.proc
  /\ irq' = w.irq
  /\ vmx_op' = w.vmx_op
  /\ cr4_vmx_enable' = w.cr4_vmx_enable
  /\ ud' = w.ud
  /\ asserts' = w.asserts

\* check_cpu_features() without the test of the CPUID feature bit
check_cpu_features_no_cpuid(c) ==
  /\ ~cr4_vmx_enable[c]
  /\ "vmx_basic" \in hw_caps
  /\ "vmx_ept_vpid_cap" \in hw_caps

\* detail::check_cpu_features() on processor c
check_cpu_features(c) ==
  /\ "cpuid_vmx" \in hw_caps
  /\ ~cr4_vmx_enable[c]
  /\ "vmx_basic" \in hw_caps
  /\ "vmx_ept_vpid_cap" \in hw_caps

\* mp::ipi_call returns when every processor has run the closure
ipi_call_returned == ipi_pending = {}

-----------------------------------------------------------------------------
Init ==
  /\ hw_caps \in SUBSET AllCaps
  /\ cr4_vmx_enable \in { [p \in Cpus |-> b] : b \in BOOLEAN }
  /\ vmx_op = [p \in Cpus |-> FALSE]
  /\ ud = [p \in Cpus |-> FALSE]
  /\ started = FALSE
  /\ vcpu_list = NULL
  /\ handler = "noop"
  /\ state_ = [p \in Cpus |-> "off"]
  /\ hist = [p \in Cpus |-> << "off" >>]
  /\ launch_calls = [p \in Cpus |-> 0]
  /\ launch_ret = [p \in Cpus |-> "none"]
  /\ ept = [p \in Cpus |-> ept_ctor]
  /\ run = [p \in Cpus |-> run_ctor]
  /\ proc = [p \in Cpus |-> proc_init]
  /\ irq = [p \in Cpus |-> irq_ctor]
  /\ asserts = {}
  /\ ctl = "idle"
  /\ ipi_pending = {}
  /\ lastOp = "none"
  /\ ret = "none"

\* start(), already started: hypervisor.cpp lines 76-80
start_refused ==
  /\ asserts' = asserts \cup {"start_started"}
  /\ ret' = "operation_not_permitted"
  /\ UNCHANGED << hwvars, vcpuvars, started, vcpu_list, ctl, ipi_pending >>

\* start() from the allocation of the array to the broadcast of launch()
start_body(h, alloc_ok, c) ==
  /\ asserts' = IF vcpu_list = NULL THEN asserts ELSE asserts \cup {"start_vcpu_list"}
  /\ IF ~alloc_ok
       THEN /\ vcpu_list' = NULL
            /\ ret' = "not_enough_memory"
            /\ UNCHANGED << hwvars, vcpuvars, started, ctl, ipi_pending >>
       ELSE /\ vcpu_list' = ARRAY
            /\ handler' = h
            /\ state_' = [p \in Procs |-> "off"]
            /\ hist' = [p \in Procs |-> << "off" >>]
            /\ launch_calls' = [p \in Procs |-> 0]
            /\ launch_ret' = [p \in Procs |-> "none"]
            /\ ept' = [p \in Procs |-> ept_ctor]
            /\ run' = [p \in Procs |-> run_ctor]
            /\ irq' = [p \in Procs |-> irq_ctor]
            /\ IF ~check_cpu_features(c)
                 THEN /\ ret' = "not_supported"
                      /\ UNCHANGED << ctl, ipi_pending >>
                 ELSE /\ ret' = "pending"
                      /\ ctl' = "start_ipi"
                      /\ ipi_pending' = Procs
            /\ UNCHANGED << hwvars, started >>

\* start() without the early return of lines 77-80
StartCall_no_guard(h, alloc_ok, c) ==
  /\ ctl = "idle"
  /\ lastOp' = "start"
  /\ start_body(h, alloc_ok, c)

\* hvpp::hypervisor::start(handler), called on processor c
StartCall(h, alloc_ok, c) ==
  /\ ctl = "idle"
  /\ lastOp' = "start"
  /\ IF started THEN start_refused ELSE start_body(h, alloc_ok, c)

\* the closure of start() on processor p
LaunchOn(p, vmxon_ok, vmcs_ok, vmlaunch_ok) ==
  /\ ctl = "start_ipi"
  /\ p \in ipi_pending
  /\ LET r == start_closure(view(World, p, p), vmxon_ok, vmcs_ok, vmlaunch_ok)
     IN  /\ Commit(store(World, p, p, r.x))
         /\ launch_ret' = [launch_ret EXCEPT ![p] = r.path]
  /\ launch_calls' = [launch_calls EXCEPT ![p] = @ + 1]
  /\ ipi_pending' = ipi_pending \ {p}
  /\ UNCHANGED << hw_caps, started, vcpu_list, handler, ctl, lastOp, ret >>

\* start() setting the flag without waiting for the broadcast
StartFinish_early ==
  /\ ctl = "start_ipi"
  /\ started' = TRUE
  /\ ret' = "success"
  /\ ctl' = "idle"
  /\ UNCHANGED << hwvars, vcpuvars, vcpu_list, asserts, ipi_pending, lastOp >>

\* start() after mp::ipi_call
StartFinish ==
  /\ ctl = "start_ipi"
  /\ ipi_call_returned
  /\ started' = TRUE
  /\ ret' = "success"
  /\ ctl' = "idle"
  /\ UNCHANGED << hwvars, vcpuvars, vcpu_list, asserts, ipi_pending, lastOp >>

\* stop(), not started
stop_refused ==
  /\ asserts' = asserts \cup {"stop_not_started"}
  /\ ret' = "void"
  /\ UNCHANGED << hwvars, vcpuvars, started, vcpu_list, ctl, ipi_pending >>

\* stop() up to the broadcast of terminate()
stop_body ==
  /\ ctl' = "stop_ipi"
  /\ ipi_pending' = Procs
  /\ ret' = "pending"
  /\ UNCHANGED << hwvars, vcpuvars, started, vcpu_list, asserts >>

\* stop() without the early return of lines 146-149
StopCall_no_guard ==
  /\ ctl = "idle"
  /\ lastOp' = "stop"
  /\ stop_body

\* hvpp::hypervisor::stop()
StopCall ==
  /\ ctl = "idle"
  /\ lastOp' = "stop"
  /\ IF ~started THEN stop_refused ELSE stop_body

\* the closure of stop() on processor p
TerminateOn(p) ==
  /\ ctl = "stop_ipi"
  /\ p \in ipi_pending
  /\ Commit(store(World, p, p, stop_closure(view(World, p, p))))
  /\ ipi_pending' = ipi_pending \ {p}
  /\ UNCHANGED << hw_caps, started, vcpu_list, handler, launch_calls, launch_ret,
                  ctl, lastOp, ret >>

\* stop() after mp::ipi_call, the control thread being on processor c
StopFinish(c) ==
  /\ ctl = "stop_ipi"
  /\ ipi_call_returned
  /\ Commit(delete_array(World, Cardinality(Procs) - 1, c, handler))
  /\ vcpu_list' = NULL
  /\ started' = FALSE
  /\ ret' = "void"
  /\ ctl' = "idle"
  /\ UNCHANGED << hw_caps, handler, launch_calls, launch_ret, ipi_pending, lastOp >>

Next ==
  \/ \E h \in Handlers, alloc_ok \in BOOLEAN, c \in Procs : StartCall(h, alloc_ok, c)
  \/ \E p \in Procs, vmxon_ok \in BOOLEAN, vmcs_ok \in BOOLEAN, vmlaunch_ok \in BOOLEAN :
       LaunchOn(p, vmxon_ok, vmcs_ok, vmlaunch_ok)
  \/ StartFinish
  \/ \E p \in Procs : TerminateOn(p)
  \/ StopCall
  \/ \E c \in Procs : StopFinish(c)

Spec == Init /\ [][Next]_vars

-----------------------------------------------------------------------------
(* Cold boot: a system of NBootCpu processors with every capability, on    *)
(* which VMXON, VMCLEAR/VMPTRLD and VMLAUNCH succeed.                      *)

BootCpus == 0 .. (NBootCpu - 1)

InitColdBoot ==
  /\ hw_caps = AllCaps
  /\ cr4_vmx_enable = [p \in BootCpus |-> FALSE]
  /\ vmx_op = [p \in BootCpus |-> FALSE]
  /\ ud = [p \in BootCpus |-> FALSE]
  /\ started = FALSE
  /\ vcpu_list = NULL
  /\ handler = "noop"
  /\ state_ = [p \in BootCpus |-> "off"]
  /\ hist = [p \in BootCpus |-> << "off" >>]
  /\ launch_calls = [p \in BootCpus |-> 0]
  /\ launch_ret = [p \in BootCpus |-> "none"]
  /\ ept = [p \in BootCpus |-> ept_ctor]
  /\ run = [p \in BootCpus |-> run_ctor]
  /\ proc = [p \in BootCpus |-> proc_init]
  /\ irq = [p \in BootCpus |-> irq_ctor]
  /\ asserts = {}
  /\ ctl = "idle"
  /\ ipi_pending = {}
  /\ lastOp = "none"
  /\ ret = "none"

NextColdBoot ==
  \/ \E h \in Handlers, alloc_ok \in BOOLEAN, c \in Procs : StartCall(h, alloc_ok, c)
  \/ \E p \in Procs : LaunchOn(p, TRUE, TRUE, TRUE)
  \/ StartFinish
  \/ \E p \in Procs : TerminateOn(p)
  \/ StopCall
  \/ \E c \in Procs : StopFinish(c)

SpecColdBoot == InitColdBoot /\ [][NextColdBoot]_vars

-----------------------------------------------------------------------------
(* The VM-exit handler of one processor using the vCPU of that processor,  *)
(* the hypervisor being started.                                           *)

\* the processor whose VM exits are followed
ExitCpu == CHOOSE p \in Procs : TRUE

\* vCPU p after its construction and the closure of start() on processor p,
\* every instruction having succeeded
started_vcpu(p) ==
  start_closure([ state_ |-> "off", hist |-> << "off" >>, e |-> ept_ctor,
                  r |-> run_ctor, cpu |-> p, p |-> proc_init,
                  vmx_op |-> FALSE, cr4_vmx_enable |-> FALSE, ud |-> FALSE,
                  asserts |-> { } ], TRUE, TRUE, TRUE).x

\* the state after start() returned success: global.started is set and every
\* vCPU is running in VMX operation
InitStarted ==
  /\ hw_caps = AllCaps
  /\ cr4_vmx_enable = [p \in Cpus |-> TRUE]
  /\ vmx_op = [p \in Cpus |-> TRUE]
  /\ ud = [p \in Cpus |-> FALSE]
  /\ started = TRUE
  /\ vcpu_list = ARRAY
  /\ handler = "vmcall"
  /\ state_ = [p \in Cpus |-> "running"]
  /\ hist = [p \in Cpus |-> << "off", "initializing", "running" >>]
  /\ launch_calls = [p \in Cpus |-> 1]
  /\ launch_ret = [p \in Cpus |-> "second"]
  /\ ept = [p \in Cpus |-> ept_ctor]
  /\ run = [p \in Cpus |-> started_vcpu(p).r]
  /\ proc = [p \in Cpus |-> started_vcpu(p).p]
  /\ irq = [p \in Cpus |-> irq_ctor]
  /\ asserts = {}
  /\ ctl = "idle"
  /\ ipi_pending = {}
  /\ lastOp = "start"
  /\ ret = "success"

\* what the queue actions leave alone; ret keeps the result of the last
\* call that returned one
queue_frame ==
  UNCHANGED << hwvars, started, vcpu_list, handler, state_, hist, launch_calls,
               launch_ret, ept, run, asserts, ctl, ipi_pending >>

\* the descriptor the handler injects next
NextInterrupt(q, first) ==
  IF first THEN InterruptFirst(q.fronts + 1) ELSE Interrupt(q.injected + 1)

\* the handler of processor p calls interrupt_inject(interrupt, first) with
\* a descriptor it has not injected before
InterruptInject(p, first) ==
  /\ started /\ ctl = "idle" /\ state_[p] = "running"
  /\ LET q == irq[p]
         d == NextInterrupt(q, first)
         r == interrupt_inject(q, d, first)
     IN  /\ interrupt_queue_full(q)
              \/ (q.injected + q.fronts < MaxInject /\ (first => q.fronts < MaxFront))
         /\ irq' = [irq EXCEPT ![p] =
                      IF r.result
                        THEN [r.q EXCEPT !.injected = IF first THEN @ ELSE @ + 1,
                                         !.fronts = IF first THEN @ + 1 ELSE @,
                                         !.enq = IF first THEN @ ELSE Append(@, d)]
                        ELSE r.q]
         /\ ret' = IF r.result THEN "true" ELSE "false"
  /\ UNCHANGED lastOp
  /\ queue_frame

\* the handler of processor p calls interrupt_inject_pending(); blocked: the
\* last call found descriptors pending that the guest could not accept
InterruptInjectPending(p, can_accept) ==
  /\ started /\ ctl = "idle" /\ state_[p] = "running"
  /\ LET q == irq[p]
         r == interrupt_inject_pending(q, can_accept)
     IN  irq' = [irq EXCEPT ![p] =
                   [r EXCEPT !.blocked = ~can_accept /\ interrupt_is_pending(q)]]
  /\ UNCHANGED << lastOp, ret >>
  /\ queue_frame

\* the handler of processor p calls interrupt_inject_force with the event
\* of the IDT-vectoring information field
InterruptInjectForce(p) ==
  /\ started /\ ctl = "idle" /\ state_[p] = "running"
  /\ irq' = [irq EXCEPT ![p] = interrupt_inject_force(@, IdtVectoring)]
  /\ UNCHANGED << lastOp, ret >>
  /\ queue_frame

NextQueue ==
  \/ \E first \in BOOLEAN : InterruptInject(ExitCpu, first)
  \/ \E can_accept \in BOOLEAN : InterruptInjectPending(ExitCpu, can_accept)
  \/ InterruptInjectForce(ExitCpu)

SpecQueue == InitStarted /\ [][NextQueue]_vars

\* what the read of an element of ept_ that does not exist can yield: no
\* pointer of an instance, zero, or the pointer of an instance of some
\* allocation
EptJunk ==
  { GarbageEptPtr, NoEptPtr } \cup { EptPtr(g, 0) : g \in 1 .. MaxEptAlloc }

\* what the EPT actions leave alone
ept_frame ==
  UNCHANGED << hw_caps, started, vcpu_list, handler, launch_calls, launch_ret,
               ctl, ipi_pending, ret >>

\* the handler of processor p calls ept_enable(count)
EptEnable(p, count, junk) ==
  /\ started /\ ctl = "idle" /\ state_[p] = "running"
  /\ ept[p].allocs < MaxEptAlloc
  /\ Commit(store(World, p, p, ept_enable(view(World, p, p), count, junk)))
  /\ lastOp' = "ept_enable"
  /\ ept_frame

\* the handler of processor p calls ept_index(index)
EptIndex(p, index, junk) ==
  /\ started /\ ctl = "idle" /\ state_[p] = "running"
  /\ Commit(store(World, p, p, ept_index(view(World, p, p), index, junk)))
  /\ lastOp' = "ept_index"
  /\ ept_frame

\* the handler of processor p calls ept_disable()
EptDisable(p) ==
  /\ started /\ ctl = "idle" /\ state_[p] = "running"
  /\ Commit(store(World, p, p, ept_disable(view(World, p, p))))
  /\ lastOp' = "ept_disable"
  /\ ept_frame

\* the handler of processor p calls ept(index)
EptGet(p, index) ==
  /\ started /\ ctl = "idle" /\ state_[p] = "running"
  /\ LET r == ept_ref(view(World, p, p), index)
     IN  /\ Commit(store(World, p, p, r.x))
         /\ ret' = r.result
  /\ lastOp' = "ept"
  /\ UNCHANGED << hw_caps, started, vcpu_list, handler, launch_calls, launch_ret,
                  ctl, ipi_pending >>

NextEpt ==
  \/ \E count \in 0 .. MaxEptCount, junk \in EptJunk : EptEnable(ExitCpu, count, junk)
  \/ \E index \in 0 .. MaxEptCount, junk \in EptJunk : EptIndex(ExitCpu, index, junk)
  \/ \E index \in 0 .. MaxEptCount : EptGet(ExitCpu, index)
  \/ EptDisable(ExitCpu)

SpecEpt == InitStarted /\ [][NextEpt]_vars

\* a VM exit of processor p, caused by the instruction at the guest rip of
\* the last VM entry: the instruction has length len, the extended
\* registers hold fx; the stub stores the registers of the host in
\* exit_context_ and calls entry_host()
EntryHost(p, len, fx, h) ==
  /\ started /\ ctl = "idle" /\ state_[p] = "running"
  /\ LET v == view(World, p, p)
         x == [v EXCEPT !.r.exit_instruction_length = len,
                        !.r.exit_context_.rsp = HostRsp,
                        !.r.exit_context_.rflags = HostRflags,
                        !.r.fx_at_entry = fx,
                        !.p.fx = fx]
     IN  Commit(store(World, p, p, entry_host(x, h)))
  /\ UNCHANGED << hw_caps, started, vcpu_list, handler, launch_calls, launch_ret,
                  ctl, ipi_pending, lastOp, ret >>

NextExit ==
  \E len \in 0 .. MaxLen, fx \in FxGuest, h \in Handled :
    EntryHost(ExitCpu, len, fx, h)

SpecExit == InitStarted /\ [][NextExit]_vars

\* VM exits of a processor, and stop()
NextExitStop ==
  \/ NextExit
  \/ StopCall
  \/ \E p \in Procs : TerminateOn(p)
  \/ \E c \in Procs : StopFinish(c)

SpecExitStop == InitStarted /\ [][NextExitStop]_vars

\* stop() called while the handler of a processor uses EPT instances
NextShutdown ==
  \/ NextEpt
  \/ StopCall
  \/ \E p \in Procs : TerminateOn(p)
  \/ \E c \in Procs : StopFinish(c)

SpecShutdown == InitStarted /\ [][NextShutdown]_vars

\* the interrupt-window exit: with interrupt-window exiting set, the VM exit
\* is taken as soon as the guest can accept an interrupt, and the handler
\* calls interrupt_inject_pending() again
WindowExit(p) ==
  /\ irq[p].interrupt_window_exiting
  /\ InterruptInjectPending(p, TRUE)

SpecQueueFair == SpecQueue /\ WF_vars(WindowExit(ExitCpu))

-----------------------------------------------------------------------------
(* Properties                                                              *)

\* position of a state in the chain off -> ... -> terminated
StateIndex(s) == CHOOSE i \in 1 .. Len(vcpu_state) : vcpu_state[i] = s

\* the states a vCPU took after it was running
AfterRunning(h) ==
  LET i == CHOOSE k \in 1 .. Len(h) : h[k] = "running"
  IN  SubSeq(h, i + 1, Len(h))

WasRunning(h) == \E k \in 1 .. Len(h) : h[k] = "running"

\* C1: is_started() is false initially; it changes from false to true only
\* in the step that ends a start() call whose launch broadcast has run
\* launch() to its return on every processor, and from true to false only in
\* the step that ends a stop() call whose terminate broadcast has run
\* terminate() on every processor.
C1_StartedFlag ==
  /\ started = FALSE
  /\ [][ /\ (~started /\ started') =>
              /\ ctl = "start_ipi" /\ lastOp = "start" /\ ctl' = "idle"
              /\ ipi_pending = {}
              /\ \A p \in Cpus : launch_calls[p] = 1 /\ launch_ret[p] # "none"
         /\ (started /\ ~started') =>
              /\ ctl = "stop_ipi" /\ lastOp = "stop" /\ ctl' = "idle"
              /\ ipi_pending = {}
              /\ \A p \in Cpus : state_[p] = "terminated" /\ ~vmx_op[p]
     ]_vars

\* C1 witness: a stop() has completed after a start() that launched every
\* processor: the flag went false -> true -> false.
C1_Witness ==
  /\ lastOp = "stop" /\ ctl = "idle" /\ ~started /\ vcpu_list = NULL
  /\ \A p \in Cpus : launch_calls[p] = 1

\* C2: when start() has returned success (started is true), every vCPU of
\* the array is in state running.
C2_AllRunningWhenStarted ==
  (lastOp = "start" /\ ctl = "idle" /\ ret = "success") =>
    (started /\ \A p \in Cpus : state_[p] = "running")

\* C3: every change of a vCPU's state goes from one state of the chain
\* off, initializing, launching, running, terminating, terminated to the
\* next one.
C3_ChainOrder ==
  \A p \in Cpus :
    /\ hist[p][1] = "off"
    /\ \A i \in 1 .. (Len(hist[p]) - 1) :
         StateIndex(hist[p][i + 1]) = StateIndex(hist[p][i]) + 1

\* C4: terminated is terminal: once a vCPU's state is terminated it takes
\* no other value afterwards.
C4_TerminatedIsTerminal ==
  \A p \in Cpus : \A i \in 1 .. Len(hist[p]) :
    hist[p][i] = "terminated" => i = Len(hist[p])

\* C5: when stop() has completed on vCPUs that were all running, each of
\* them went from running to terminating and then to terminated, the array
\* is freed and is_started() is false.
C5_GracefulShutdown ==
  (lastOp = "stop" /\ ctl = "idle" /\ \A p \in Cpus : WasRunning(hist[p])) =>
    /\ \A p \in Cpus : AfterRunning(hist[p]) = << "terminating", "terminated" >>
    /\ vcpu_list = NULL
    /\ ~started

\* C6: the assertion at the top of terminate() (state is neither off nor
\* terminated) holds at every call.
C6_TerminateAssertion == "terminate" \notin asserts

\* C7: launch() is called at most once per vCPU, and when it has returned
\* to the broadcast closure it has returned through the second return path
\* and the vCPU is running.
C7_LaunchReturnsRunning ==
  \A p \in Cpus :
    /\ launch_calls[p] <= 1
    /\ (ctl = "start_ipi" /\ launch_ret[p] # "none") =>
         (launch_ret[p] = "second" /\ state_[p] = "running")

\* C8: on processors that lack a required capability, start() returns
\* not_supported (when the array could be allocated), is_started() stays
\* false, launch() is called on no processor, no processor enters VMX
\* operation and no vCPU leaves state off.
C8_MissingCapability ==
  (hw_caps # AllCaps) =>
    /\ ~started
    /\ ctl = "idle"
    /\ \A p \in Cpus :
         /\ launch_calls[p] = 0
         /\ ~vmx_op[p]
         /\ hist[p] = << "off" >>
    /\ (lastOp = "start" /\ ret # "not_enough_memory") => ret = "not_supported"

\* C8 witness: start() has returned not_supported on processors without
\* the CPUID feature bit, the array having been constructed.
C8_Witness ==
  /\ "cpuid_vmx" \notin hw_caps
  /\ lastOp = "start" /\ ret = "not_supported" /\ vcpu_list = ARRAY

\* C9: start() called while started returns operation_not_permitted and
\* changes neither the array, nor any vCPU, nor the flag, nor any processor,
\* and broadcasts nothing.
C9_StartWhileStarted ==
  [][ (ctl = "idle" /\ started /\ lastOp' = "start") =>
        /\ ret' = "operation_not_permitted"
        /\ UNCHANGED << hwvars, vcpuvars, started, vcpu_list, ctl, ipi_pending >>
    ]_vars

\* C9 witness: start() has been refused while the hypervisor is started.
C9_Witness ==
  /\ started /\ ctl = "idle" /\ lastOp = "start"
  /\ ret = "operation_not_permitted"
  /\ \A p \in Cpus : state_[p] = "running"

\* C10: stop() called while not started broadcasts nothing and leaves the
\* array pointer, the flag, the vCPUs and the processors unchanged.
C10_StopWhileStopped ==
  [][ (ctl = "idle" /\ ~started /\ lastOp' = "stop") =>
        UNCHANGED << hwvars, vcpuvars, started, vcpu_list, ctl, ipi_pending >>
    ]_vars

\* C10 witness: stop() has returned early while an array (left by a start()
\* that failed the capability check) is still referenced.
C10_Witness ==
  /\ ~started /\ ctl = "idle" /\ lastOp = "stop"
  /\ "stop_not_started" \in asserts
  /\ vcpu_list = ARRAY

\* C11: on a cold boot of a system of NBootCpu (4) processors on which the
\* capability check passes and every hardware instruction succeeds, a call
\* of start(handler) that is not refused for the lack of memory returns
\* success, is_started() is true afterwards and the vCPU of each of the
\* processors is running.
C11_ColdBoot ==
  (lastOp = "start" /\ ctl = "idle"
     /\ ret \notin { "operation_not_permitted", "not_enough_memory" })
    => /\ ret = "success"
       /\ started
       /\ \A p \in Procs : state_[p] = "running" /\ launch_ret[p] = "second"

C11_Witness ==
  /\ Cardinality(Procs) = NBootCpu
  /\ lastOp = "start" /\ ctl = "idle" /\ ret = "success"
  /\ started
  /\ \A p \in Procs : state_[p] = "running"

\* the queue of the vCPU whose VM exits are followed
Queue == irq[ExitCpu]

\* the members of the queue: the array, the head index and the count
queue_members(q) ==
  << q.pending_interrupt_, q.pending_interrupt_first_, q.pending_interrupt_count_ >>

\* C12: interrupt_inject on a full queue (16 pending descriptors) returns
\* false and leaves the queue as it was, with first = false and with
\* first = true: the same head index, the same count, the same descriptors
\* in the same slots.
C12_FullQueueRefuses ==
  [][ \A first \in BOOLEAN :
        (InterruptInject(ExitCpu, first) /\ interrupt_queue_full(Queue))
        => /\ ret' = "false"
           /\ queue_members(Queue') = queue_members(Queue)
           /\ Contents(Queue') = Contents(Queue) ]_vars

C12_Witness ==
  /\ ret = "false"
  /\ Queue.pending_interrupt_count_ = pending_interrupt_queue_size
  /\ Queue.pending_interrupt_first_ > 0

\* C13: a successful interrupt_inject with first = true puts the new
\* descriptor ahead of every pending descriptor, wherever the head index
\* is, and keeps the order of the descriptors already pending.
C13_FrontGoesFirst ==
  [][ (InterruptInject(ExitCpu, TRUE) /\ ret' = "true")
        => Contents(Queue') = << NextInterrupt(Queue, TRUE) >> \o Contents(Queue) ]_vars

\* A (tail), B (tail), C (first) were delivered in the order C, A, B, the
\* head index having wrapped around the end of the array
C13_Witness ==
  /\ Queue.deliv = << InterruptFirst(1), Interrupt(1), Interrupt(2) >>
  /\ Queue.pending_interrupt_[pending_interrupt_queue_size - 1] = InterruptFirst(1)

\* C14: the descriptors injected with first = false are delivered in the
\* order of their injection, none lost and none delivered twice: the
\* injected ones are the delivered ones followed by the pending ones.
C14_Fifo ==
  LET tail(d) == \E i \in 1 .. Len(Queue.enq) : Queue.enq[i] = d
  IN  Queue.enq = SelectSeq(Queue.deliv, tail) \o SelectSeq(Contents(Queue), tail)

\* more descriptors than the array has slots went through the queue
C14_Witness ==
  /\ Len(Queue.enq) > pending_interrupt_queue_size
  /\ Queue.deliv = Queue.enq

\* C15: the count of pending descriptors is between 0 and 16 and the head
\* index is below 16, whatever calls of interrupt_inject,
\* interrupt_inject_pending and interrupt_inject_force were made.
C15_QueueBounds ==
  /\ Queue.pending_interrupt_count_ \in 0 .. pending_interrupt_queue_size
  /\ Queue.pending_interrupt_first_ \in 0 .. (pending_interrupt_queue_size - 1)

C15_Witness ==
  /\ Queue.pending_interrupt_count_ = pending_interrupt_queue_size
  /\ Queue.pending_interrupt_first_ = pending_interrupt_queue_size - 1
  /\ Queue.entry_interruption_info = IdtVectoring

\* C16: interrupt_inject_pending() removes exactly the head descriptor and
\* writes it to the VM-entry interruption-information field when the guest
\* can accept an interrupt and the queue is not empty; otherwise it leaves
\* the queue as it was and sets interrupt-window exiting; after a call
\* that found descriptors pending and the guest unable to accept an
\* interrupt, a later call delivers a pending descriptor.
C16_InjectPending ==
  /\ [][ \A can_accept \in BOOLEAN :
            InterruptInjectPending(ExitCpu, can_accept)
              => IF can_accept /\ interrupt_is_pending(Queue)
                   THEN /\ Contents(Queue') = Tail(Contents(Queue))
                        /\ Queue'.entry_interruption_info = Head(Contents(Queue))
                   ELSE /\ queue_members(Queue') = queue_members(Queue)
                        /\ Queue'.entry_interruption_info = Queue.entry_interruption_info
                        /\ Queue'.interrupt_window_exiting ]_vars
  /\ Queue.blocked ~> ~Queue.blocked

C16_Witness ==
  /\ Queue.interrupt_window_exiting /\ ~Queue.blocked
  /\ Queue.deliv # << >>
  /\ Queue.entry_interruption_info = Queue.deliv[Len(Queue.deliv)]
  /\ interrupt_is_pending(Queue)

\* the EPT members of the vCPU whose VM exits are followed
Ept == ept[ExitCpu]

\* C17: ept_index(i) with i >= count fails the assertion and changes
\* neither the active index nor the EPT pointer of the VMCS (stated for
\* the calls made while no assertion has failed before).
C17_IndexRejected ==
  [][ \A index \in 0 .. MaxEptCount, junk \in EptJunk :
        (EptIndex(ExitCpu, index, junk) /\ index >= Ept.ept_count_ /\ asserts = {})
          => /\ "ept_index" \in asserts'
             /\ Ept'.ept_index_ = Ept.ept_index_
             /\ Ept'.ept_pointer = Ept.ept_pointer ]_vars

\* C18: whenever the instance of the active index exists, the EPT pointer
\* of the VMCS is the pointer of that instance, and a call of ept_index(i)
\* with i < count makes i the active index.
C18_PointerOfActiveIndex ==
  /\ [](ept_exists(Ept, Ept.ept_index_)
          => Ept.ept_pointer = EptPtr(Ept.allocs, Ept.ept_index_))
  /\ [][ \A index \in 0 .. MaxEptCount, junk \in EptJunk :
            (EptIndex(ExitCpu, index, junk) /\ ept_exists(Ept, index))
              => Ept'.ept_index_ = index ]_vars

C18_Witness ==
  /\ lastOp = "ept_index"
  /\ Ept.allocs = MaxEptAlloc
  /\ Ept.ept_index_ > 0
  /\ ept_exists(Ept, Ept.ept_index_)
  /\ "ept_index" \notin asserts

\* C19: ept_enable(count) fails its assertion when the instances are
\* already allocated or count is 0; otherwise count instances exist
\* afterwards, enable_ept is set, and index 0 is active with the pointer of
\* instance 0 in the VMCS.
C19_Enable ==
  [][ \A count \in 0 .. MaxEptCount, junk \in EptJunk :
        EptEnable(ExitCpu, count, junk)
          => IF Ept.ept_ = NULL /\ count > 0
               THEN /\ Ept'.ept_ # NULL
                    /\ Ept'.ept_count_ = count
                    /\ Ept'.allocs = Ept.allocs + 1
                    /\ Ept'.enable_ept
                    /\ Ept'.ept_index_ = 0
                    /\ Ept'.ept_pointer = EptPtr(Ept'.allocs, 0)
                    /\ asserts' = asserts
               ELSE "ept_enable" \in asserts' ]_vars

\* enabled again after ept_index(1) and ept_disable()
C19_Witness ==
  /\ lastOp = "ept_enable"
  /\ Ept.allocs = MaxEptAlloc /\ Ept.frees = MaxEptAlloc - 1
  /\ Ept.ept_ # NULL /\ Ept.ept_count_ = MaxEptCount
  /\ Ept.ept_index_ = 0 /\ Ept.ept_pointer = EptPtr(MaxEptAlloc, 0)
  /\ asserts = {}

\* C20: a call of ept_disable() that follows a call of ept_disable(), and a
\* call on a vCPU on which ept_enable was never called, releases nothing
\* and changes no field of the vCPU.
C20_DisableIdempotent ==
  [][ (EptDisable(ExitCpu) /\ (lastOp = "ept_disable" \/ Ept.allocs = 0))
        => UNCHANGED << ept, irq, state_, hist, hwvars, asserts >> ]_vars

C20_Witness ==
  /\ lastOp = "ept_disable"
  /\ Ept.ept_ = NULL
  /\ Ept.frees = Ept.allocs /\ Ept.allocs > 0

Log(p) == run[p].log

\* number of times a step occurs in a log, and the place of a step that
\* occurs once
Count(log, name) == Cardinality({ i \in DOMAIN log : log[i] = name })
At(log, name) == CHOOSE i \in DOMAIN log : log[i] = name

\* each step of names occurs exactly once in log, in the order of names
InOrder(log, names) ==
  /\ \A k \in DOMAIN names : Count(log, names[k]) = 1
  /\ \A k \in 1 .. (Len(names) - 1) : At(log, names[k]) < At(log, names[k + 1])

\* C22: every launch() calls the handler's setup() exactly once, after
\* load_vmxon, load_vmcs, setup_host and setup_guest (in this order) and
\* before vmlaunch; no step after the first entry into the guest, and no
\* other call into the vCPU, calls it.
C22_HandlerSetupOnce ==
  \A p \in Procs :
    /\ Count(Log(p), "launch") = 1 =>
         /\ InOrder(Log(p), << "launch", "load_vmxon", "load_vmcs", "setup_host",
                               "setup_guest", "handler_setup", "vmlaunch" >>)
         /\ Count(Log(p), "entry_guest") = 1 =>
              At(Log(p), "vmlaunch") < At(Log(p), "entry_guest")
    /\ Count(Log(p), "launch") = launch_calls[p]
         \/ (Log(p) # << >> /\ Log(p)[1] # "start_closure")
    /\ Count(Log(p), "launch") = 0 => Count(Log(p), "handler_setup") = 0

C22_Witness ==
  \E p \in Procs :
    /\ state_[p] = "running" /\ launch_calls[p] = 1
    /\ Log(p)[1] = "start_closure"
    /\ Count(Log(p), "handler_setup") = 1
    /\ Log(p)[Len(Log(p)) - 2] = "entry_guest"

\* C23: the destructor of a vCPU sets the state to terminating, then calls
\* the handler's invoke_termination() exactly once, then releases the EPT
\* instances (none is left allocated, one release per allocated array); no
\* other call into a vCPU calls invoke_termination().
C23_DestructionOrder ==
  /\ [](\A p \in Procs :
         IF Log(p) # << >> /\ Log(p)[1] = "~vcpu_t"
           THEN /\ InOrder(Log(p), << "~vcpu_t", "terminating",
                                     "invoke_termination", "ept_disable" >>)
                /\ Log(p)[2] = "terminating"
                /\ Log(p)[Len(Log(p))] = "ept_disable"
                /\ ept[p].ept_ = NULL
           ELSE Count(Log(p), "invoke_termination") = 0)
  /\ [][ (vcpu_list = ARRAY /\ vcpu_list' = NULL) =>
          \A p \in Procs :
            /\ Log(p)'[1] = "~vcpu_t"
            /\ "terminating" \in { hist'[p][i] : i \in DOMAIN hist'[p] }
            /\ ept'[p].frees = ept[p].frees + (IF ept[p].ept_ = NULL THEN 0 ELSE 1)
      ]_vars

C23_Witness ==
  /\ lastOp = "stop" /\ ctl = "idle" /\ vcpu_list = NULL
  /\ Log(ExitCpu)[1] = "~vcpu_t"
  /\ Ept.ept_ = NULL /\ Ept.ept_count_ > 0
  /\ Ept.frees = Ept.allocs /\ Ept.allocs = MaxEptAlloc

\* the steps of the bring-up that follow load_vmxon
BringUpSteps == { "load_vmcs", "vmclear_vmptrld", "setup_host", "setup_guest",
                  "handler_setup", "vmlaunch" }

\* C24: when VMXON, VMCLEAR/VMPTRLD or VMLAUNCH fails during the bring-up
\* of a vCPU, no later step of the bring-up is executed on it, load_vmcs is
\* only entered in state initializing, no instruction is executed twice,
\* and the vCPU ends in state terminated.
C24_BringUpHalts ==
  /\ "load_vmcs" \notin asserts
  /\ \A p \in Procs :
       (Log(p) # << >> /\ Log(p)[1] = "start_closure" /\ Count(Log(p), "failed") > 0) =>
         /\ \A i, j \in DOMAIN Log(p) :
              (Log(p)[i] = "failed" /\ i < j) => Log(p)[j] \notin BringUpSteps
         /\ Count(Log(p), "failed") = 1
         /\ Count(Log(p), "vmxon") <= 1
         /\ Count(Log(p), "vmclear_vmptrld") <= 1
         /\ Count(Log(p), "vmlaunch") <= 1
         /\ state_[p] = "terminated"

\* vCPU of the processor whose VM exits are followed
Run == run[ExitCpu]

\* the steps of a log after the last occurrence of a step
Since(log, name) ==
  LET k == CHOOSE i \in DOMAIN log :
             log[i] = name /\ \A j \in DOMAIN log : log[j] = name => j <= i
  IN  SubSeq(log, k + 1, Len(log))

\* C25: when the handler has driven the vCPU to terminated during handle(),
\* entry_host() does not advance rip, does not write rsp, rip and rflags to
\* the guest state, does not set up the resume, and executes no VMX
\* instruction: after handle() it only leaves the allocation-suppression
\* scope and restores the extended registers.
C25_TerminatedPath ==
  (Run.log[1] = "entry_host" /\ state_[ExitCpu] = "terminated") =>
    /\ Count(Run.log, "adjust_rip") = 0
    /\ Count(Run.log, "write_guest") = 0
    /\ Count(Run.log, "resume") = 0
    /\ Since(Run.log, "terminated") = << "guard_release", "fx_restore" >>
    /\ Run.guest.rip + Run.exit_instruction_length = Run.machine_frame.rip
    /\ Run.guest.rsp = Run.machine_frame.rsp
    /\ Run.exit_context_ =
         Context(Run.handled.rip + Run.exit_instruction_length, Run.handled.reg)
    /\ ~ud[ExitCpu]

C25_Witness ==
  /\ Run.log[1] = "entry_host" /\ state_[ExitCpu] = "terminated"
  /\ Run.handled.terminate
  /\ Run.exit_instruction_length > 0
  /\ Run.handled.rip # Run.guest.rip
  /\ ~vmx_op[ExitCpu]

\* C26: when the handler has not terminated the vCPU, the rip entry_host()
\* writes to the guest state is the rip the handler left in the exit
\* context plus the length of the exiting instruction if the handler did
\* not call suppress_rip_adjust() in this exit, and that rip unchanged if it
\* did, whatever the flag was when the exit began; rsp and rflags are
\* written as the handler left them.
C26_RipWriteBack ==
  (Run.log[1] = "entry_host" /\ state_[ExitCpu] # "terminated") =>
    /\ Run.guest =
         Context(Run.handled.rip
                   + (IF Run.handled.suppress THEN 0 ELSE Run.exit_instruction_length),
                 Run.handled.reg)
    /\ Run.suppress_rip_adjust_ = Run.handled.suppress
    /\ Count(Run.log, "write_guest") = 1

C26_Witness ==
  /\ Run.log[1] = "entry_host" /\ state_[ExitCpu] = "running"
  /\ Run.suppress_at_entry /\ ~Run.handled.suppress
  /\ Run.exit_instruction_length > 0
  /\ Run.guest.rip = Run.handled.rip + Run.exit_instruction_length
  /\ Run.handled.reg # Run.machine_frame.rsp

\* C27: entry_host() saves the extended register state before handle()
\* runs and restores it exactly once, as its last step, on the resume path
\* and on the path of a terminated vCPU: when it returns the registers hold
\* what they held at the VM exit.
C27_ExtendedState ==
  Run.log[1] = "entry_host" =>
    /\ InOrder(Run.log, << "entry_host", "fx_save", "handle", "fx_restore" >>)
    /\ Run.log[Len(Run.log)] = "fx_restore"
    /\ Run.fxsave_area_ = Run.fx_at_entry
    /\ proc[ExitCpu].fx = Run.fx_at_entry

C27_Witness ==
  /\ Run.log[1] = "entry_host" /\ state_[ExitCpu] = "terminated"
  /\ Run.log[Len(Run.log)] = "fx_restore"
  /\ proc[ExitCpu].fx = "fx_guest_b"
  /\ Run.suppress_at_entry

\* the allocation-suppression scope is held at step i of a log
Held(log, i) ==
  Count(SubSeq(log, 1, i - 1), "guard_acquire")
    > Count(SubSeq(log, 1, i - 1), "guard_release")

\* C28: the allocation-suppression scope is balanced: the launch closure,
\* the terminate closure and entry_host() (on the resume path and on the
\* terminated path) acquire it once and release it once, it is held when
\* launch(), terminate() and the handler's handle() run in them, and when
\* they finish its depth on the processor is the depth at their entry.
C28_GuardBalanced ==
  /\ \A c \in Procs : proc[c].guard = 0
  /\ \A p \in Procs :
       (Log(p) # << >> /\ Log(p)[1] \in { "start_closure", "stop_closure", "entry_host" }) =>
         /\ InOrder(Log(p), << "guard_acquire", "guard_release" >>)
         /\ \A i \in DOMAIN Log(p) :
              Log(p)[i] \in { "launch", "terminate", "handle" } => Held(Log(p), i)
         /\ Log(p)[1] = "start_closure" => Count(Log(p), "launch") = 1
         /\ Log(p)[1] = "stop_closure" => Count(Log(p), "terminate") = 1
         /\ Log(p)[1] = "entry_host" => Count(Log(p), "handle") = 1

C28_Witness ==
  /\ ctl = "stop_ipi"
  /\ Run.log[1] = "entry_host" /\ state_[ExitCpu] = "terminated"
  /\ Count(Run.log, "terminate") = 1
  /\ \E p \in Procs : Log(p)[1] = "stop_closure"
  /\ proc[ExitCpu].guard = 0

\* the steps of terminate(), and the steps that execute a VMX instruction
TerminateSteps ==
  << "terminate", "rip_advance", "write_gdtr", "write_idtr", "write_cr3",
     "invvpid", "invept", "vmxoff", "cr4_clear", "terminated" >>
VmxSteps ==
  { "vmxon", "vmclear_vmptrld", "setup_host", "setup_guest", "vmlaunch",
    "exit_instruction_error", "rip_advance", "write_gdtr", "write_idtr",
    "write_cr3", "invvpid", "invept", "vmxoff", "read_guest", "write_guest" }

\* every call of terminate() performs its steps in the order of the source
C29_TerminateSteps ==
  \A p \in Procs : \A i \in DOMAIN Log(p) :
    Log(p)[i] = "terminate" =>
      /\ i + Len(TerminateSteps) - 1 <= Len(Log(p))
      /\ SubSeq(Log(p), i, i + Len(TerminateSteps) - 1) = TerminateSteps

\* a vCPU in state terminated is on a processor outside VMX operation with
\* CR4.VMXE clear
C29_TerminatedLeftVmx ==
  \A p \in Procs :
    state_[p] = "terminated" => (~vmx_op[p] /\ ~cr4_vmx_enable[p])

\* C29: terminate() advances the saved rip, restores the descriptor-table
\* registers and cr3, flushes the cached translations, executes VMXOFF,
\* clears CR4.VMXE and then sets the state to terminated; a call into the
\* vCPU executes no VMX instruction after VMXOFF, and the state becomes
\* terminated only when the processor has left VMX operation and the bit
\* is clear.
C29_TerminateOrder ==
  /\ C29_TerminateSteps
  /\ C29_TerminatedLeftVmx
  /\ \A p \in Procs : \A i, j \in DOMAIN Log(p) :
       /\ (Log(p)[i] = "vmxoff" /\ i < j) => Log(p)[j] \notin VmxSteps
       /\ Log(p)[j] = "terminated" =>
            (j > 2 /\ Log(p)[j - 1] = "cr4_clear" /\ Log(p)[j - 2] = "vmxoff")

\* C30: once the array is constructed, the code of start() and stop() that
\* operates on vCPU p (launch and terminate in the broadcast closures, the
\* destructor and the termination callback it calls) is executed by
\* processor p only.
C30_OwnProcessorOnly ==
  \A p \in Procs : run[p].by \subseteq { p }

\* C31: whenever start() is entered with started false, vcpu_list is null
\* (the assertion of start() holds): no array is retained after a start()
\* that returned not_supported or not_enough_memory, nor after a completed
\* stop().
C31_NoArrayRetained ==
  /\ "start_vcpu_list" \notin asserts
  /\ (ctl = "idle" /\ ~started) => vcpu_list = NULL

C33_ReleasedUnreachable ==
  /\ [](Ept.ept_ = NULL => Ept.ept_count_ = 0)
  /\ [][ ( /\ Ept.ept_ = NULL /\ asserts = {}
            /\ \/ \E index \in 0 .. MaxEptCount, junk \in EptJunk :
                    EptIndex(ExitCpu, index, junk)
               \/ \E index \in 0 .. MaxEptCount : EptGet(ExitCpu, index) )
          => asserts' # {} ]_vars

====
